---- MODULE Spec2Model ----
(***************************************************************************)
(* The resilient session supervisor of skipper (src/src/skipper.rs): the   *)
(* connection acquirer, Session construction, the supervisor loop with its *)
(* error classification, and the hook runner.                              *)
(*                                                                         *)
(* Strings are sequences of one-character strings, so that formatting and  *)
(* "contains" are computed and not assumed.  A character outside ASCII is   *)
(* written as its code point ("U+1F6A8").                                   *)
(***************************************************************************)
EXTENDS Integers, Sequences, FiniteSets, TLC

\* ------------------------------------------------------------------ bounds

\* error_interval (minutes) is drawn from 0..MaxErrorInterval, 5 and 30.
MaxErrorInterval == 2
\* At most this many consecutive failed connection attempts per acquisition.
MaxConnFails == 2
\* Session generations are numbered modulo NumGen.
NumGen == 3
\* Longest captured standard output of a hook script, in bytes.
MaxOut == 3
\* Calls of try_call_hook made with the same arguments.
MaxCalls == 2

\* --------------------------------------------------------------- constants

\* thread::sleep(time::Duration::from_secs(6)) in the acquirer's Err arm.
RetrySleepSecs == 6
\* thread::sleep(time::Duration::from_secs(1)) after a warned error.
DelaySecs == 1
\* 60 * config.error_interval
SecsPerMin == 60
\* ChainPrefix is the u16 that Ss58AddressFormat::custom takes.
U16Max == 2^16 - 1

\* ----------------------------------------------------------------- strings

OnHoldPrefix ==
    <<"O", "n", " ", "h", "o", "l", "d", " ", "f", "o", "r", " ">>
OnHoldSuffix ==
    <<" ", "m", "i", "n", "!">>
FormattedPrefix ==
    <<"<", "b", "r", "/", ">", "U+1F6A8", " ", "A", "n", " ", "e", "r",
      "r", "o", "r", " ", "w", "a", "s", " ", "r", "a", "i", "s", "e", "d",
      " ", "-", ">", " ", "<", "c", "o", "d", "e", ">", "s", "k", "i", "p",
      "p", "e", "r", "<", "/", "c", "o", "d", "e", ">", " ", "o", "n", " ",
      "h", "o", "l", "d", " ", "f", "o", "r", " ">>
FormattedSuffix ==
    <<" ", "m", "i", "n", " ", "w", "h", "i", "l", "e", " ", "r", "e", "s",
      "c", "u", "e", " ", "i", "s", " ", "o", "n", " ", "t", "h", "e", " ",
      "w", "a", "y", " ", "U+1F681", " ", "U+1F692", " ", "U+1F691", " ",
      "U+1F693", "<", "b", "r", "/", ">", "<", "b", "r", "/", ">">>
HookErrPrefix ==
    <<"H", "o", "o", "k", " ", "s", "c", "r", "i", "p", "t", " ">>
HookErrSuffix ==
    <<" ", "e", "x", "e", "c", "u", "t", "e", "d", " ", "w", "i", "t", "h",
      " ", "e", "r", "r", "o", "r">>
HOOK_NEW_SESSION ==
    <<"H", "o", "o", "k", " ", "N", "e", "w", " ", "S", "e", "s", "s", "i",
      "o", "n">>
HOOK_ACTIVE_NEXT_ERA ==
    <<"H", "o", "o", "k", " ", "A", "c", "t", "i", "v", "e", " ", "N", "e",
      "x", "t", " ", "E", "r", "a">>
HOOK_INACTIVE_NEXT_ERA ==
    <<"H", "o", "o", "k", " ", "I", "n", "a", "c", "t", "i", "v", "e", " ",
      "N", "e", "x", "t", " ", "E", "r", "a">>
LogLinePrefix ==
    <<">", " ">>
\* The message of an injected Other error.
DecodeFailure ==
    <<"d", "e", "c", "o", "d", "e", " ", "f", "a", "i", "l", "u", "r", "e">>

DigitChar(d) == <<"0", "1", "2", "3", "4", "5", "6", "7", "8", "9">>[d + 1]

\* format!("{}", n) of an unsigned integer: its decimal digits.
RECURSIVE Digits(_)
Digits(n) ==
    IF n < 10 THEN <<DigitChar(n)>>
    ELSE Digits(n \div 10) \o <<DigitChar(n % 10)>>

\* str::contains: needle is a contiguous part of hay.
Contains(hay, needle) ==
    \E i \in 0..(Len(hay) - Len(needle)) :
        \A j \in 1..Len(needle) : hay[i + j] = needle[j]

\* ------------------------------------------------------------------- state

VARIABLES
    error_interval,     \* CONFIG.error_interval, minutes
    substrate_ws_url,   \* CONFIG.substrate_ws_url
    pc,                 \* where the supervisor task stands
    gen,                \* number of the loop iteration, modulo NumGen
    alive,              \* the Skipper values (by iteration) not yet dropped
    running,            \* the iterations whose subscription is running
    client,             \* the attempt whose Client the acquirer returned, 0: none
    ss58_format,        \* properties.get("ss58Format") of the connected node
    chain_prefix,       \* chain_prefix of Skipper::new
    default_ss58,       \* the process-wide default SS58 version, -1: never set
    matrix_ok,          \* whether matrix.authenticate succeeded
    panicked,           \* "" or the unwrap that panicked
    trace,              \* what happened since the last subscription returned
    hook,               \* try_call_hook's arguments and the script behind them
    hpc,                \* "idle", "ready" (a call is pending), "returned"
    hret,               \* what try_call_hook returned
    hlog,               \* the info lines the call under way has logged
    launches,           \* processes the call under way has launched
    calls               \* calls of try_call_hook made with these arguments

superVars ==
    <<error_interval, substrate_ws_url, pc, gen, alive, running, client,
      ss58_format, chain_prefix, default_ss58, matrix_ok, panicked, trace>>

hookVars == <<hook, hpc, hret, hlog, launches, calls>>

vars ==
    <<error_interval, substrate_ws_url, pc, gen, alive, running, client,
      ss58_format, chain_prefix, default_ss58, matrix_ok, panicked, trace,
      hook, hpc, hret, hlog, launches, calls>>

\* ------------------------------------------------------------------ inputs

ErrorIntervals == (0..MaxErrorInterval) \cup {5, 30}

Urls == {"ws://localhost:9944"}

\* What run_and_subscribe_new_session_events returns: Ok(()) or Err(e).
\* The kinds of SkipperError the file names are SubscriptionFinished,
\* MatrixError and Other; IOError and Utf8Error stand for the kinds that the
\* ? conversions of try_call_hook produce.
OkResult == [kind |-> "Ok", msg |-> <<>>]

ErrResults ==
    { [kind |-> "SubscriptionFinished", msg |-> <<>>],
      [kind |-> "MatrixError", msg |-> <<>>],
      [kind |-> "Other", msg |-> DecodeFailure],
      [kind |-> "Other", msg |-> HookErrPrefix \o HOOK_NEW_SESSION \o HookErrSuffix],
      [kind |-> "IOError", msg |-> <<>>],
      [kind |-> "Utf8Error", msg |-> <<>>] }

\* properties.get("ss58Format"): absent, not a number, or a JSON number.
Ss58Props ==
    { [tag |-> "absent", n |-> 0], [tag |-> "string", n |-> 0] }
    \cup { [tag |-> "number", n |-> v] : v \in {-1, 0, 2, 42, U16Max, U16Max + 1} }

\* ------------------------------------------------------------------- trace

Ev(ev, kind, text, text2, n, g) ==
    [ev |-> ev, kind |-> kind, text |-> text, text2 |-> text2, n |-> n, gen |-> g]

Log(level, text) == Ev("log", level, text, <<>>, 0, 0)

Sleep(site, secs) == Ev("sleep", site, <<>>, <<>>, secs, 0)

Indices(kind) == { i \in 1..Len(trace) : trace[i].ev = kind }

\* The index of the last Skipper::new in the trace, 0 when there is none.
LastBuild ==
    IF Indices("build") = {} THEN 0
    ELSE CHOOSE i \in Indices("build") : \A j \in Indices("build") : j <= i

\* Failed attempts of the acquisition under way.
FailsSoFar ==
    Cardinality({ i \in Indices("attempt") : i > LastBuild /\ trace[i].kind = "err" })

AttemptsSoFar == Cardinality({ i \in Indices("attempt") : i > LastBuild })

\* ------------------------------------------------------------ initial state

NoHook == [name |-> <<>>, exists |-> FALSE, launch |-> FALSE, status |-> 0, stdout |-> <<>>]

SuperInit ==
    /\ error_interval \in ErrorIntervals
    /\ substrate_ws_url \in Urls
    /\ pc = "loop"
    /\ gen = 0
    /\ alive = {}
    /\ running = {}
    /\ client = 0
    /\ ss58_format = [tag |-> "absent", n |-> 0]
    /\ chain_prefix = 0
    /\ default_ss58 = -1
    /\ matrix_ok = FALSE
    /\ panicked = ""
    /\ trace = <<>>

HookIdle ==
    /\ hook = NoHook
    /\ hpc = "idle"
    /\ hret = [kind |-> "", msg |-> <<>>]
    /\ hlog = <<>>
    /\ launches = 0
    /\ calls = 0

Init == SuperInit /\ HookIdle

\* ------------------------------------------------- the connection acquirer

\* loop { match create_substrate_node_client(config.clone()).await {
\* One connection attempt against the configured URL.
CreateClient ==
    /\ pc = "connect"
    /\ \E ok \in BOOLEAN :
        /\ (~ok) => FailsSoFar < MaxConnFails
        /\ trace' = Append(trace,
                Ev("attempt", IF ok THEN "ok" ELSE "err", <<substrate_ws_url>>, <<>>,
                   AttemptsSoFar + 1, 0))
        /\ pc' = IF ok THEN "connected" ELSE "conn_err"
    /\ UNCHANGED <<error_interval, substrate_ws_url, ss58_format, gen, alive, running, client,
                   chain_prefix, default_ss58, matrix_ok, panicked>>
    /\ UNCHANGED hookVars

\* Err(e) => { error!(..); info!(..); thread::sleep(6 s); } and around again.
AwaitRetry_NoSleep ==
    /\ pc = "conn_err"
    /\ trace' = trace \o
            << Log("error", <<"{}", "subxt::Error">>),
               Log("info", <<"Awaiting for connection using {}", substrate_ws_url>>) >>
    /\ pc' = "connect"
    /\ UNCHANGED <<error_interval, substrate_ws_url, ss58_format, gen, alive, running, client,
                   chain_prefix, default_ss58, matrix_ok, panicked>>
    /\ UNCHANGED hookVars

AwaitRetry ==
    /\ pc = "conn_err"
    /\ trace' = trace \o
            << Log("error", <<"{}", "subxt::Error">>),
               Log("info", <<"Awaiting for connection using {}", substrate_ws_url>>),
               Sleep("connect", RetrySleepSecs) >>
    /\ pc' = "connect"
    /\ UNCHANGED <<error_interval, substrate_ws_url, ss58_format, gen, alive, running, client,
                   chain_prefix, default_ss58, matrix_ok, panicked>>
    /\ UNCHANGED hookVars

\* The first placeholder pasted into all three queries.
OrPlaceholder_Pasted(ok, value, placeholder) ==
    IF ok THEN value ELSE "Chain undefined"

\* .unwrap_or_else(|_| "... undefined".to_string())
OrPlaceholder(ok, value, placeholder) == IF ok THEN value ELSE placeholder

\* How an identity query ended.
Outcome(ok) == IF ok THEN "ok" ELSE "err"

\* Ok(client) => { the three identity queries; info!(..); break client; }
ReportIdentity ==
    /\ pc = "connected"
    /\ \E chainOk \in BOOLEAN, nameOk \in BOOLEAN, versionOk \in BOOLEAN :
        trace' = trace \o
            << Ev("log", "info",
                  << "Connected to {} network using {} * Substrate node {} v{}",
                     OrPlaceholder(chainOk, "system_chain", "Chain undefined"),
                     substrate_ws_url,
                     OrPlaceholder(nameOk, "system_name", "Node name undefined"),
                     OrPlaceholder(versionOk, "system_version", "Node version undefined") >>,
                  << Outcome(chainOk), Outcome(nameOk), Outcome(versionOk) >>, 0, 0),
               Ev("client", "", <<>>, <<>>, AttemptsSoFar, 0) >>
    /\ client' = AttemptsSoFar
    /\ pc' = "properties"
    /\ UNCHANGED <<error_interval, substrate_ws_url, ss58_format, gen, alive, running,
                   chain_prefix, default_ss58, matrix_ok, panicked>>
    /\ UNCHANGED hookVars

\* ----------------------------------------------------------- Skipper::new

\* let c: Skipper = Skipper::new().await;  entered from the top of the loop.
NewSkipper ==
    /\ pc = "loop"
    /\ gen' = (gen + 1) % NumGen
    /\ client' = 0
    /\ trace' = Append(trace, Ev("build", "", <<>>, <<>>, 0, gen'))
    /\ pc' = "connect"
    /\ UNCHANGED <<error_interval, substrate_ws_url, ss58_format, alive, running,
                   chain_prefix, default_ss58, matrix_ok, panicked>>
    /\ UNCHANGED hookVars

\* ss58_format.as_u64().unwrap_or_default(), or 0 when the property is absent.
RawPrefix(p) ==
    IF p.tag = "number" /\ p.n >= 0 THEN p.n ELSE 0

\* .try_into().unwrap() into ChainPrefix
FitsChainPrefix(raw) == raw <= U16Max

\* crypto::Ss58AddressFormat::custom(chain_prefix), the version that
\* set_default_ss58_version installs.
\* The prefix cut to the u8 of the older Ss58AddressFormat::Custom.
CustomSs58_U8(prefix) == prefix % 2^8

CustomSs58(prefix) == prefix

\* properties.get("ss58Format") .. crypto::set_default_ss58_version(..)
ReadProperties ==
    /\ pc = "properties"
    /\ \E p \in Ss58Props :
        /\ ss58_format' = p
        /\ IF FitsChainPrefix(RawPrefix(p))
           THEN /\ chain_prefix' = RawPrefix(p)
                /\ default_ss58' = CustomSs58(RawPrefix(p))
                /\ pc' = "authenticate"
                /\ panicked' = panicked
           ELSE /\ pc' = "panicked"
                /\ panicked' = "try_into"
                /\ UNCHANGED <<chain_prefix, default_ss58>>
    /\ UNCHANGED <<error_interval, substrate_ws_url, gen, alive, running, client,
                   matrix_ok, trace>>
    /\ UNCHANGED hookVars

\* matrix.authenticate(..).await.unwrap(): a failed authentication panics.
Authenticate_Unwrapped ==
    /\ pc = "authenticate"
    /\ \E ok \in BOOLEAN :
        /\ matrix_ok' = ok
        /\ trace' = IF ok THEN trace
                    ELSE Append(trace, Log("error", <<"{}", "MatrixError">>))
        /\ pc' = IF ok THEN "subscribed" ELSE "panicked"
        /\ panicked' = IF ok THEN panicked ELSE "authenticate"
        /\ alive' = IF ok THEN alive \cup {gen} ELSE alive
        /\ running' = IF ok THEN running \cup {gen} ELSE running
    /\ UNCHANGED <<error_interval, substrate_ws_url, ss58_format, gen, client,
                   chain_prefix, default_ss58>>
    /\ UNCHANGED hookVars

\* matrix.authenticate(..).await.unwrap_or_else(|e| error!(..)); Skipper {..};
\* then c.run_and_subscribe_new_session_events() is entered.
Authenticate ==
    /\ pc = "authenticate"
    /\ \E ok \in BOOLEAN :
        /\ matrix_ok' = ok
        /\ trace' = IF ok THEN trace
                    ELSE Append(trace, Log("error", <<"{}", "MatrixError">>))
    /\ alive' = alive \cup {gen}
    /\ running' = running \cup {gen}
    /\ pc' = "subscribed"
    /\ UNCHANGED <<error_interval, substrate_ws_url, ss58_format, gen, client,
                   chain_prefix, default_ss58, panicked>>
    /\ UNCHANGED hookVars

\* ------------------------------------------------------ the supervisor loop

\* The end of the loop body, a continue, or an unwinding panic drops c.
DropSkipper_Leaked(sessions, g) == sessions

DropSkipper(sessions, g) == sessions \ {g}

\* match e { SubscriptionFinished => .., MatrixError(_) => .., _ => .. }
Policy_MatrixOnHold(kind) ==
    IF kind = "SubscriptionFinished" THEN "finished" ELSE "hold"

Policy_IoSkipped(kind) ==
    IF kind = "SubscriptionFinished" THEN "finished"
    ELSE IF kind \in {"MatrixError", "IOError"} THEN "skipped"
    ELSE "hold"

Policy(kind) ==
    IF kind = "SubscriptionFinished" THEN "finished"
    ELSE IF kind = "MatrixError" THEN "skipped"
    ELSE "hold"

\* Every arm logging with error!.
PolicyLog_ErrorLevel(e) == Log("error", <<"{}", e.kind>> \o e.msg)

\* warn!("{}", e) / warn!("Matrix message skipped!") / error!("{}", e)
PolicyLog(e) ==
    CASE Policy(e.kind) = "finished" -> Log("warn", <<"{}", e.kind>> \o e.msg)
      [] Policy(e.kind) = "skipped" -> Log("warn", <<"Matrix message skipped!">>)
      [] OTHER -> Log("error", <<"{}", e.kind>> \o e.msg)

\* format!("On hold for {} min!", config.error_interval)
OnHoldMessage_Fixed(ei) == OnHoldPrefix \o <<"3", "0">> \o OnHoldSuffix

OnHoldMessage(ei) == OnHoldPrefix \o Digits(ei) \o OnHoldSuffix

\* format!("<br/>.. on hold for {} min while rescue is on the way ..", ..)
OnHoldFormatted(ei) == FormattedPrefix \o Digits(ei) \o FormattedSuffix

\* time::Duration::from_secs(60 * config.error_interval)
CooldownSecs_Minutes(ei) == ei

CooldownSecs(ei) == SecsPerMin * ei

\* c.send_message(..).await.unwrap(): an Err panics the task.
OnSendError_Ignored == "cooldown"

OnSendError == "panicked"

\* The continue that ends the hold arm.
AfterCooldown_FallThrough == "delay"

AfterCooldown == "loop"

\* The one-second sleep placed after the if let instead of inside it.
SubscriptionOk_Delayed ==
    /\ pc = "subscribed"
    /\ running' = running \ {gen}
    /\ trace' = << Ev("result", OkResult.kind, OkResult.msg, <<>>, 0, gen) >>
    /\ pc' = "delay"
    /\ UNCHANGED <<error_interval, substrate_ws_url, ss58_format, gen, alive, client,
                   chain_prefix, default_ss58, matrix_ok, panicked>>
    /\ UNCHANGED hookVars

\* c.run_and_subscribe_new_session_events().await returned Ok(()): the if let
\* does not match and the loop body ends.
SubscriptionOk ==
    /\ pc = "subscribed"
    /\ running' = running \ {gen}
    /\ trace' = << Ev("result", OkResult.kind, OkResult.msg, <<>>, 0, gen) >>
    /\ alive' = DropSkipper(alive, gen)
    /\ pc' = "loop"
    /\ UNCHANGED <<error_interval, substrate_ws_url, ss58_format, gen, client,
                   chain_prefix, default_ss58, matrix_ok, panicked>>
    /\ UNCHANGED hookVars

\* .. returned Err(e): the match logs e by its kind; the hold arm goes on to
\* send, the other two fall out of the match to the one-second sleep.
SubscriptionErr ==
    /\ pc = "subscribed"
    /\ \E e \in ErrResults :
        /\ trace' = << Ev("result", e.kind, e.msg, <<>>, 0, gen), PolicyLog(e) >>
        /\ pc' = IF Policy(e.kind) = "hold" THEN "notify" ELSE "delay"
    /\ running' = running \ {gen}
    /\ UNCHANGED <<error_interval, substrate_ws_url, ss58_format, gen, alive, client,
                   chain_prefix, default_ss58, matrix_ok, panicked>>
    /\ UNCHANGED hookVars

\* let message = ..; let formatted_message = ..;
\* c.send_message(&message, &formatted_message).await.unwrap();
SendOnHold ==
    /\ pc = "notify"
    /\ \E ok \in BOOLEAN :
        /\ trace' = Append(trace,
                Ev("send", IF ok THEN "ok" ELSE "err",
                   OnHoldMessage(error_interval), OnHoldFormatted(error_interval), 0, gen))
        /\ pc' = IF ok THEN "cooldown" ELSE OnSendError
    /\ panicked' = IF pc' = "panicked" THEN "send" ELSE panicked
    /\ alive' = IF pc' = "panicked" THEN DropSkipper(alive, gen) ELSE alive
    /\ UNCHANGED <<error_interval, substrate_ws_url, ss58_format, gen, running, client,
                   chain_prefix, default_ss58, matrix_ok>>
    /\ UNCHANGED hookVars

\* thread::sleep(time::Duration::from_secs(60 * config.error_interval)); continue;
Cooldown ==
    /\ pc = "cooldown"
    /\ trace' = Append(trace, Sleep("cooldown", CooldownSecs(error_interval)))
    /\ pc' = AfterCooldown
    /\ alive' = IF pc' = "loop" THEN DropSkipper(alive, gen) ELSE alive
    /\ UNCHANGED <<error_interval, substrate_ws_url, ss58_format, gen, running, client,
                   chain_prefix, default_ss58, matrix_ok, panicked>>
    /\ UNCHANGED hookVars

\* thread::sleep(time::Duration::from_secs(1)); and the loop body ends.
Delay ==
    /\ pc = "delay"
    /\ trace' = Append(trace, Sleep("delay", DelaySecs))
    /\ alive' = DropSkipper(alive, gen)
    /\ pc' = "loop"
    /\ UNCHANGED <<error_interval, substrate_ws_url, ss58_format, gen, running, client,
                   chain_prefix, default_ss58, matrix_ok, panicked>>
    /\ UNCHANGED hookVars

Next ==
    \/ NewSkipper
    \/ CreateClient
    \/ AwaitRetry
    \/ ReportIdentity
    \/ ReadProperties
    \/ Authenticate
    \/ SubscriptionOk
    \/ SubscriptionErr
    \/ SendOnHold
    \/ Cooldown
    \/ Delay

Spec == Init /\ [][Next]_vars

\* The task runs whenever it can: every step of the loop but the return of
\* the subscription, which may run for ever, is taken once it is enabled.
FairSpec ==
    /\ Spec
    /\ WF_vars(NewSkipper)
    /\ WF_vars(CreateClient)
    /\ WF_vars(AwaitRetry)
    /\ WF_vars(ReportIdentity)
    /\ WF_vars(ReadProperties)
    /\ WF_vars(Authenticate)
    /\ WF_vars(SendOnHold)
    /\ WF_vars(Cooldown)
    /\ WF_vars(Delay)

\* ------------------------------------------------------------- hook runner

\* A byte that occurs in no UTF-8 text.
BadByte == "xFF"

HookNames == {HOOK_NEW_SESSION, HOOK_ACTIVE_NEXT_ERA, HOOK_INACTIVE_NEXT_ERA}

RECURSIVE SeqsUpTo(_, _)
SeqsUpTo(S, n) ==
    IF n = 0 THEN {<<>>}
    ELSE SeqsUpTo(S, n - 1) \cup { Append(s, x) : s \in SeqsUpTo(S, n - 1), x \in S }

\* What a call finds: whether the file exists, whether the process can be
\* launched, its exit status and the bytes it wrote to standard output.
HookInputs ==
    { h \in [ name : HookNames, exists : BOOLEAN, launch : BOOLEAN,
              status : {0, 1, 3}, stdout : SeqsUpTo({"a", "b", "\n", BadByte}, MaxOut) ] :
        /\ ~h.exists => ~h.launch
        /\ ~h.launch => h.status = 0 /\ h.stdout = <<>> }

\* String::from_utf8(output.stdout)
ValidUtf8(bytes) == \A i \in 1..Len(bytes) : bytes[i] # BadByte

\* str::split: the text split at each "\n", keeping what follows the last one.
RECURSIVE Lines_Split(_)
Lines_Split(s) ==
    LET nl == { i \in 1..Len(s) : s[i] = "\n" }
    IN  IF nl = {} THEN <<s>>
        ELSE LET i == CHOOSE k \in nl : \A m \in nl : k <= m
             IN  <<SubSeq(s, 1, i - 1)>> \o Lines_Split(SubSeq(s, i + 1, Len(s)))

\* str::lines: the text split at each "\n", a final line ending being optional.
RECURSIVE Lines(_)
Lines(s) ==
    IF s = <<>> THEN <<>>
    ELSE LET nl == { i \in 1..Len(s) : s[i] = "\n" }
         IN  IF nl = {} THEN <<s>>
             ELSE LET i == CHOOSE k \in nl : \A m \in nl : k <= m
                  IN  <<SubSeq(s, 1, i - 1)>> \o Lines(SubSeq(s, i + 1, Len(s)))

\* raw_output.lines().for_each(|x| info!("> {}", x)), which the early return
\* on a failing status and the ? on from_utf8 come before.
HookLogged_BeforeStatus(h) ==
    IF ValidUtf8(h.stdout)
    THEN [ i \in 1..Len(Lines(h.stdout)) |-> LogLinePrefix \o Lines(h.stdout)[i] ]
    ELSE <<>>

HookLogged(h) ==
    IF h.status = 0 /\ ValidUtf8(h.stdout)
    THEN [ i \in 1..Len(Lines(h.stdout)) |-> LogLinePrefix \o Lines(h.stdout)[i] ]
    ELSE <<>>

\* SkipperError::Other(format!("Hook script {} executed with error", name))
HookStatusError(name) ==
    [kind |-> "Other", msg |-> HookErrPrefix \o name \o HookErrSuffix]

HookOk == [kind |-> "Ok", msg |-> <<>>]

\* The ? of Command::output(): SkipperError::from(std::io::Error), an error
\* of the I/O kind.
IoErrorFrom == [kind |-> "IOError", msg |-> <<>>]

\* The ? of String::from_utf8: SkipperError::from(FromUtf8Error).
Utf8ErrorFrom == [kind |-> "Utf8Error", msg |-> <<>>]

\* Without the Path::exists test, a missing file fails to launch.
HookReturn_NoExistsCheck(h) ==
    IF ~h.launch THEN IoErrorFrom
    ELSE IF h.status # 0 THEN HookStatusError(h.name)
    ELSE IF ~ValidUtf8(h.stdout) THEN Utf8ErrorFrom
    ELSE HookOk

\* A failed launch reported like a failing exit status.
HookReturn_LaunchAsStatus(h) ==
    IF ~h.exists THEN HookOk
    ELSE IF ~h.launch \/ h.status # 0 THEN HookStatusError(h.name)
    ELSE IF ~ValidUtf8(h.stdout) THEN Utf8ErrorFrom
    ELSE HookOk

\* The value try_call_hook returns.
HookReturn(h) ==
    IF ~h.exists THEN HookOk
    ELSE IF ~h.launch THEN IoErrorFrom
    ELSE IF h.status # 0 THEN HookStatusError(h.name)
    ELSE IF ~ValidUtf8(h.stdout) THEN Utf8ErrorFrom
    ELSE HookOk

\* pub fn try_call_hook(name, filename, args) -> Result<(), SkipperError>
TryCallHook ==
    /\ hpc = "ready"
    /\ hret' = HookReturn(hook)
    /\ launches' = IF hook.exists /\ hook.launch THEN launches + 1 ELSE launches
    /\ hlog' = IF hook.exists /\ hook.launch THEN hlog \o HookLogged(hook) ELSE hlog
    /\ hpc' = "returned"
    /\ UNCHANGED <<hook, calls>>
    /\ UNCHANGED superVars

\* The caller invokes the same hook once more.
CallAgain ==
    /\ hpc = "returned"
    /\ calls < MaxCalls
    /\ calls' = calls + 1
    /\ hpc' = "ready"
    /\ hlog' = <<>>
    /\ launches' = 0
    /\ UNCHANGED <<hook, hret>>
    /\ UNCHANGED superVars

SuperIdle ==
    /\ error_interval = 0
    /\ substrate_ws_url \in Urls
    /\ pc = "loop"
    /\ gen = 0
    /\ alive = {}
    /\ running = {}
    /\ client = 0
    /\ ss58_format = [tag |-> "absent", n |-> 0]
    /\ chain_prefix = 0
    /\ default_ss58 = -1
    /\ matrix_ok = FALSE
    /\ panicked = ""
    /\ trace = <<>>

HookInit ==
    /\ SuperIdle
    /\ hook \in HookInputs
    /\ hpc = "ready"
    /\ hret = [kind |-> "", msg |-> <<>>]
    /\ hlog = <<>>
    /\ launches = 0
    /\ calls = 1

HookNext == TryCallHook \/ CallAgain

HookSpec == HookInit /\ [][HookNext]_vars

\* ------------------------------------------------------------------ claims

\* A subscription has returned and its result heads the trace.
HasResult == Len(trace) >= 1 /\ trace[1].ev = "result"

\* The result that heads the trace is an error of neither warned kind.
OtherResult ==
    HasResult /\ trace[1].kind \notin {"Ok", "SubscriptionFinished", "MatrixError"}

\* The result that heads the trace is SubscriptionFinished or MatrixError.
WarnedResult ==
    HasResult /\ trace[1].kind \in {"SubscriptionFinished", "MatrixError"}

CooldownSleeps == { i \in Indices("sleep") : trace[i].kind = "cooldown" }

DelaySleeps == { i \in Indices("sleep") : trace[i].kind = "delay" }

\* C1: after an error that is neither SubscriptionFinished nor MatrixError
\* the loop logs it, then sends exactly one notification through the Session
\* whose subscription failed, then (the send having succeeded) sleeps once
\* for exactly 60 * error_interval seconds, then starts the next Skipper::new,
\* with nothing in between; no build starts before the cooldown has ended.
C1_OtherSendCooldownBuild ==
    OtherResult =>
        /\ Len(trace) >= 2 /\ trace[2].ev = "log"
        /\ pc = "notify" <=> Len(trace) = 2
        /\ Len(trace) >= 3 => trace[3].ev = "send" /\ trace[3].gen = trace[1].gen
        /\ pc = "cooldown" <=> (Len(trace) = 3 /\ trace[3].kind = "ok")
        /\ Len(trace) >= 4 =>
            /\ trace[3].kind = "ok"
            /\ trace[4] = Sleep("cooldown", 60 * error_interval)
        /\ pc = "loop" <=> Len(trace) = 4
        /\ Len(trace) >= 5 => trace[5].ev = "build"
        /\ Cardinality(Indices("send")) <= 1
        /\ CooldownSleeps \subseteq {4}
        /\ \A i \in Indices("build") : i >= 5

C1_Witness ==
    /\ OtherResult
    /\ error_interval = 5
    /\ Len(trace) >= 5
    /\ trace[3].ev = "send"
    /\ trace[4].ev = "sleep"
    /\ trace[5].ev = "build"

\* C2: after SubscriptionFinished or MatrixError the loop sends no
\* notification and never enters the error_interval cooldown: the next
\* Skipper::new starts without a cooldown wait.
C2_WarnedNoSendNoCooldown ==
    WarnedResult =>
        /\ Indices("send") = {}
        /\ CooldownSleeps = {}
        /\ pc \notin {"notify", "cooldown", "panicked"} \/ panicked = "try_into"

C2_Witness ==
    /\ WarnedResult
    /\ trace[1].kind = "MatrixError"
    /\ Indices("build") # {}
    /\ pc = "subscribed"

\* C3 as stated: after every result, whatever it is, a sleep of 1 second
\* comes right before the next Skipper::new.
C3_DelayAfterEveryResult ==
    HasResult => \A i \in Indices("build") : trace[i - 1] = Sleep("delay", 1)

\* C3 amended: a sleep of 1 second comes right before the next Skipper::new
\* exactly when the result was SubscriptionFinished or MatrixError; after a
\* clean return and after the cooldown of any other error there is none.
C3_DelayOnlyAfterWarned ==
    HasResult =>
        /\ \A i \in Indices("build") :
            (trace[i - 1] = Sleep("delay", 1)) <=> WarnedResult
        /\ ~WarnedResult => DelaySleeps = {}
        /\ WarnedResult => (pc = "delay" <=> DelaySleeps = {})

C3_Witness ==
    /\ WarnedResult
    /\ trace[1].kind = "SubscriptionFinished"
    /\ Indices("build") # {}
    /\ DelaySleeps # {}

\* C4: at most one Session is alive and at most one subscription runs at any
\* time; the Session of an iteration is released before the next iteration's
\* connection attempt begins, and a send uses only the Session whose
\* subscription has just returned.
C4_OneSessionSequential ==
    /\ Cardinality(alive) <= 1
    /\ Cardinality(running) <= 1
    /\ running \subseteq alive
    /\ alive \subseteq {gen}
    /\ pc \in {"loop", "connect", "conn_err", "connected", "properties", "authenticate"}
            => alive = {} /\ running = {}
    /\ pc = "subscribed" <=> running # {}
    /\ \A i \in Indices("send") :
        /\ HasResult /\ trace[i].gen = trace[1].gen
        /\ Indices("build") = {} => trace[i].gen = gen

C4_Witness ==
    /\ pc = "connect"
    /\ OtherResult
    /\ CooldownSleeps # {}
    /\ AttemptsSoFar = 0
    /\ alive = {}

\* The subscription has returned and the next Skipper::new has not started.
Recovering == HasResult /\ Indices("build") = {}

\* C5: provided no notification send of the supervisor fails (connection
\* attempts succeed after at most MaxConnFails failures), every return of a
\* subscription is eventually followed by a new subscription being started.
C5_AlwaysResubscribes ==
    ([](panicked # "send")) => (Recovering ~> (pc = "subscribed"))

\* C6: the loop has no terminal state other than a failed notification send
\* in the hold arm: wherever no step is possible, that send has failed.
C6_OnlySendFailureTerminates ==
    (~ENABLED Next) => panicked = "send"

\* C7: a failed send in the hold arm panics the task: the loop stops there,
\* the cooldown sleep is not performed and no further Session is built.
C7_SendFailureIsFatal ==
    \A i \in Indices("send") :
        trace[i].kind = "err" =>
            /\ pc = "panicked"
            /\ panicked = "send"
            /\ i = Len(trace)
            /\ ~ENABLED Next

C7_Witness ==
    /\ panicked = "send"
    /\ OtherResult
    /\ Len(trace) = 3
    /\ trace[3].kind = "err"

\* C8: when N attempts fail and attempt N+1 succeeds, the acquirer has made
\* exactly N+1 attempts, all against the configured URL, has logged N
\* failures and slept N times for 6 seconds, once after each failure and not
\* after the success, and returns one handle, that of the successful attempt;
\* it does not return before an attempt has succeeded.
C8_AcquirerRetries ==
    /\ \A c \in Indices("client") :
        LET b == LastBuild
            N == FailsSoFar
        IN  /\ c = b + 4 * N + 3
            /\ \A k \in 1..N :
                /\ trace[b + 4 * (k - 1) + 1]
                        = Ev("attempt", "err", <<substrate_ws_url>>, <<>>, k, 0)
                /\ trace[b + 4 * (k - 1) + 2].ev = "log"
                /\ trace[b + 4 * (k - 1) + 2].kind = "error"
                /\ trace[b + 4 * (k - 1) + 3].ev = "log"
                /\ trace[b + 4 * (k - 1) + 4] = Sleep("connect", 6)
            /\ trace[b + 4 * N + 1]
                    = Ev("attempt", "ok", <<substrate_ws_url>>, <<>>, N + 1, 0)
            /\ trace[c].n = N + 1
            /\ client = N + 1
            /\ AttemptsSoFar = N + 1
            /\ Cardinality({ i \in Indices("sleep") : i > b }) = N
            /\ Cardinality({ i \in Indices("log") : i > b /\ i < c /\ trace[i].kind = "error" }) = N
            /\ Cardinality(Indices("client")) = 1
    /\ pc \in {"properties", "authenticate", "subscribed"} => Indices("client") # {}
    /\ pc \in {"connect", "conn_err", "connected"} => client = 0 /\ Indices("client") = {}

C8_Witness ==
    /\ pc = "properties"
    /\ FailsSoFar >= 2
    /\ client = FailsSoFar + 1

HookFailed ==
    hpc = "returned" /\ hook.exists /\ hook.launch /\ hook.status # 0

\* C10 as stated: a hook whose script exits with a non-zero status returns an
\* Other error whose message contains the hook's name, and every line the
\* script wrote to its standard output is in the log, in the original order.
C10_FailedHookLogsOutput ==
    (HookFailed /\ ValidUtf8(hook.stdout)) =>
        /\ hret.kind = "Other"
        /\ Contains(hret.msg, hook.name)
        /\ Len(hlog) = Len(Lines(hook.stdout))
        /\ \A i \in 1..Len(hlog) : Contains(hlog[i], Lines(hook.stdout)[i])

\* C10 amended: a hook whose script exits with a non-zero status returns the
\* Other error "Hook script {name} executed with error", having launched the
\* process once, and none of the script's standard output is logged.
C10_FailedHookLogsNothing ==
    HookFailed =>
        /\ hret.kind = "Other"
        /\ Contains(hret.msg, hook.name)
        /\ hret.msg = HookErrPrefix \o hook.name \o HookErrSuffix
        /\ launches = 1
        /\ hlog = <<>>

C10_Witness ==
    /\ HookFailed
    /\ hook.status = 3
    /\ hook.name = HOOK_NEW_SESSION
    /\ Len(Lines(hook.stdout)) = 2
    /\ ValidUtf8(hook.stdout)

\* C11: a hook whose path does not exist returns success, launches no process
\* and logs no line, the same at every one of the repeated calls; no error
\* reaches the caller.
C11_MissingHookIsNoOp ==
    (hpc = "returned" /\ ~hook.exists) =>
        /\ hret = HookOk
        /\ hret.kind \notin {"Other", "IOError", "Utf8Error"}
        /\ launches = 0
        /\ hlog = <<>>

C11_Witness ==
    /\ hpc = "returned"
    /\ ~hook.exists
    /\ calls = 2
    /\ hret.kind = "Ok"

\* The logged lines without their "> ", each followed by a line ending.
RECURSIVE JoinLogged(_)
JoinLogged(ls) ==
    IF ls = <<>> THEN <<>>
    ELSE SubSeq(Head(ls), Len(LogLinePrefix) + 1, Len(Head(ls))) \o <<"\n">>
            \o JoinLogged(Tail(ls))

\* The call under way has returned from a script that was launched and
\* exited with status 0.
HookSucceeded ==
    hpc = "returned" /\ hook.exists /\ hook.launch /\ hook.status = 0

\* C12 as stated: a hook whose script exits with status 0 launches the
\* process once, logs every line of its standard output once and in order,
\* and returns success.
C12_SuccessLogsEveryLine ==
    HookSucceeded =>
        /\ hret = HookOk
        /\ launches = 1
        /\ Len(hlog) = Len(Lines(hook.stdout))
        /\ \A i \in 1..Len(hlog) : hlog[i] = LogLinePrefix \o Lines(hook.stdout)[i]

\* C12 amended: a hook whose script exits with status 0 launches the process
\* once; when its standard output is valid UTF-8 every line of it is logged
\* once, as "> " and the line, in the original order (the logged lines, each
\* with its line ending, put together give the output, whose last line
\* ending is optional), and the call returns success; when the output is not
\* valid UTF-8 the call returns an error and logs nothing.
C12_SuccessLogsValidOutput ==
    HookSucceeded =>
        /\ launches = 1
        /\ ValidUtf8(hook.stdout) =>
            /\ hret = HookOk
            /\ \A i \in 1..Len(hlog) :
                /\ SubSeq(hlog[i], 1, Len(LogLinePrefix)) = LogLinePrefix
                /\ \A j \in (Len(LogLinePrefix) + 1)..Len(hlog[i]) : hlog[i][j] # "\n"
            /\ JoinLogged(hlog) \in {hook.stdout, hook.stdout \o <<"\n">>}
            /\ hook.stdout = <<>> => hlog = <<>>
        /\ ~ValidUtf8(hook.stdout) =>
            /\ hret.kind # "Ok"
            /\ hlog = <<>>

C12_Witness ==
    /\ HookSucceeded
    /\ hook.name = HOOK_NEW_SESSION
    /\ hook.stdout = <<"a", "\n", "b">>
    /\ Len(hlog) = 2
    /\ hret.kind = "Ok"

\* C17: a hook whose script exists but cannot be launched returns an error
\* of the I/O kind, which is not the exit-status error "Hook script {name}
\* executed with error", and logs no line.
C17_LaunchFailureIsIoError ==
    (hpc = "returned" /\ hook.exists /\ ~hook.launch) =>
        /\ hret.kind = "IOError"
        /\ hret # HookStatusError(hook.name)
        /\ ~Contains(hret.msg, HookErrSuffix)
        /\ hlog = <<>>
        /\ launches = 0

C17_Witness ==
    /\ hpc = "returned"
    /\ hook.exists
    /\ ~hook.launch
    /\ hret.kind = "IOError"

\* The loop took the cooldown-and-notify policy for the result.
TookHold == pc \in {"notify", "cooldown"} \/ Indices("send") # {}

\* The loop took one of the two warn-and-restart policies for the result.
TookWarn == pc = "delay" \/ DelaySleeps # {}

\* C13: every error a subscription returns takes exactly one of the three
\* policies (warn and restart for SubscriptionFinished, "message skipped"
\* and restart for MatrixError, cooldown-and-notify), and every kind other
\* than SubscriptionFinished and MatrixError, the errors of a hook among
\* them, takes cooldown-and-notify.
C13_ClassifierTotalExclusive ==
    (HasResult /\ trace[1].kind # "Ok") =>
        /\ TookHold \/ TookWarn
        /\ ~(TookHold /\ TookWarn)
        /\ TookHold <=> trace[1].kind \notin {"SubscriptionFinished", "MatrixError"}
        /\ trace[1].kind = "MatrixError" <=> trace[2].text = <<"Matrix message skipped!">>
        /\ trace[1].kind = "SubscriptionFinished" <=>
                (TookWarn /\ trace[2].text # <<"Matrix message skipped!">>)

C13_Witness ==
    /\ HasResult
    /\ trace[1].kind = "IOError"
    /\ pc = "cooldown"
    /\ TookHold

\* C14: after a clean return (Ok) the loop logs nothing, sends nothing and
\* sleeps neither the delay nor the cooldown: the next Skipper::new is the
\* very next thing that happens.
C14_CleanReturnRestartsAtOnce ==
    (HasResult /\ trace[1].kind = "Ok") =>
        /\ pc = "loop" <=> Len(trace) = 1
        /\ Len(trace) >= 2 => trace[2].ev = "build"
        /\ Indices("send") = {}
        /\ DelaySleeps = {}
        /\ CooldownSleeps = {}
        /\ \A i \in Indices("log") \cup Indices("sleep") : i > LastBuild /\ LastBuild = 2
        /\ pc \notin {"notify", "cooldown", "delay"}

C14_Witness ==
    /\ HasResult
    /\ trace[1].kind = "Ok"
    /\ Len(trace) >= 2
    /\ trace[2].ev = "build"
    /\ pc = "connect"

\* The identifier Skipper::new derives from what the node reported: the
\* number itself, and 0 when the property is absent or is not an unsigned
\* number.
ReportedPrefix ==
    IF ss58_format.tag = "number" /\ ss58_format.n >= 0 THEN ss58_format.n ELSE 0

\* C15: while a Session's subscription runs, the process-wide default SS58
\* version is the chain prefix that Session was built from, which is the
\* ss58Format its node reported, or 0 when the property is absent: it was
\* set in Skipper::new before the subscription started and stays so until
\* the subscription has returned.
C15_DisplayFormatIsSessionPrefix ==
    pc = "subscribed" =>
        /\ default_ss58 = chain_prefix
        /\ chain_prefix = ReportedPrefix
        /\ ss58_format.tag = "absent" => default_ss58 = 0
        /\ default_ss58 \in 0..(2^16 - 1)

C15_Witness ==
    /\ pc = "subscribed"
    /\ HasResult
    /\ ss58_format = [tag |-> "number", n |-> 2]
    /\ default_ss58 = 2

\* The error line that a failed matrix.authenticate leaves in the log.
AuthFailureLog == Log("error", <<"{}", "MatrixError">>)

\* C16: a failed authentication of the notification sink in Skipper::new is
\* logged and nothing more: the Skipper is built and its subscription is
\* started, and the failure by itself brings no result to the classifier, no
\* send, no delay, no cooldown and no restart.
C16_AuthFailureNotEscalated ==
    /\ (pc = "subscribed" /\ ~matrix_ok) => trace[Len(trace)] = AuthFailureLog
    /\ (trace # <<>> /\ trace[Len(trace)] = AuthFailureLog) =>
        /\ pc = "subscribed"
        /\ ~matrix_ok
        /\ panicked = ""
        /\ alive = {gen}
        /\ running = {gen}
        /\ \A i \in 1..Len(trace) :
            i > LastBuild =>
                /\ trace[i].ev \in {"attempt", "log", "client", "sleep"}
                /\ trace[i].ev = "sleep" => trace[i].kind = "connect"
        /\ Cardinality(Indices("build")) = 1

C16_Witness ==
    /\ pc = "subscribed"
    /\ ~matrix_ok
    /\ trace[Len(trace)] = AuthFailureLog
    /\ running = {gen}

\* C18: every error the loop classifies gives exactly one log line, a
\* warning for SubscriptionFinished and MatrixError and an error for every
\* other kind, and that line comes before any send, delay or cooldown of the
\* iteration.
C18_OneLogPerClassifiedError ==
    (HasResult /\ trace[1].kind # "Ok") =>
        /\ Len(trace) >= 2
        /\ trace[2].ev = "log"
        /\ trace[2].kind =
                IF trace[1].kind \in {"SubscriptionFinished", "MatrixError"}
                THEN "warn" ELSE "error"
        /\ { i \in Indices("log") : LastBuild = 0 \/ \A b \in Indices("build") : i < b } = {2}
        /\ \A i \in Indices("send") \cup Indices("sleep") : i > 2

C18_Witness ==
    /\ HasResult
    /\ trace[1].kind = "SubscriptionFinished"
    /\ trace[2].kind = "warn"
    /\ DelaySleeps # {}
    /\ pc = "loop"

\* C19: once an attempt has succeeded, an identity query that fails gives
\* the placeholder of its own field and the other fields keep what the node
\* answered; no attempt and no sleep follows, and the acquirer returns the
\* handle of that attempt.
C19_FailedQueryGivesPlaceholder ==
    \A c \in Indices("client") :
        LET l == trace[c - 1]
            a == trace[c - 2]
        IN  /\ a.ev = "attempt" /\ a.kind = "ok"
            /\ trace[c].n = a.n
            /\ client = a.n
            /\ l.ev = "log" /\ l.kind = "info"
            /\ l.text[2] = IF l.text2[1] = "err" THEN "Chain undefined" ELSE "system_chain"
            /\ l.text[3] = substrate_ws_url
            /\ l.text[4] = IF l.text2[2] = "err" THEN "Node name undefined" ELSE "system_name"
            /\ l.text[5] = IF l.text2[3] = "err" THEN "Node version undefined"
                           ELSE "system_version"
            /\ \A i \in (c - 2 + 1)..Len(trace) : trace[i].ev \notin {"attempt", "sleep"}

C19_Witness ==
    /\ pc = "properties"
    /\ Indices("client") # {}
    /\ trace[Len(trace) - 1].text2 = <<"ok", "err", "err">>
    /\ FailsSoFar = 1

====
